---- MODULE Spec2Model ----
(***************************************************************************)
(* A model of the cachemap crate: an insert-only map for caching the       *)
(* result of functions.  Two backends are modelled:                         *)
(*   "single"  : src/src/hashmap_impl.rs, Mutex<HashMap<K, Box<V>>>         *)
(*   "sharded" : src/src/lib.rs,          DashMap<K, Arc<V>>                *)
(* The backend is fixed by Init; the threads then run the public           *)
(* operations of that backend, one step per lock-delimited section.        *)
(***************************************************************************)
EXTENDS Integers, Sequences, FiniteSets

VARIABLES
    backend,   \* "single" | "sharded": which of the two CacheMap types is in use
    alive,     \* the CacheMap value has not been dropped
    inner,     \* shard index -> hash table [gen, buckets] (CacheMap.inner)
    lock,      \* shard index -> 0 (free) or the thread holding the lock
    heap,      \* address -> [val, strong, drops]: Box<V> / ArcInner<V> payloads
    pc,        \* thread -> position in the operation it runs
    key,       \* thread -> the key argument of the running call
    fval,      \* thread -> the value the factory of the running call produces
    ret,       \* thread -> what its last call returned and it still holds
    owned,     \* thread -> the Arc<V> it owns (from to_arc), with the value read
    it,        \* thread -> [pos, done, yielded, snap]: its live borrowing iterator
    evals,     \* key -> number of factory executions started for that key
    first,     \* key -> {} or {v}: the value of the first committed entry
    seen,      \* key -> the set of [ptr, val] that cache calls have returned
    nest       \* thread -> [op, key]: the call its running factory makes on the map

vars == <<backend, alive, inner, lock, heap, pc, key, fval, ret, owned, it,
          evals, first, seen, nest>>

----------------------------------------------------------------------------
(* Bounds of the model *)

NumThreads == 2
NumKeys == 2
MaxClones == 1
MaxPanics == 1

Threads == 1..NumThreads
Keys == 0..(NumKeys - 1)

(* The values the factories of the tests produce (double_insert) *)
Vals == {5, 7}

(* V::default(), the factory of cache_default *)
DefaultV == 0

(* The value the use_after_drop test writes through Arc::make_mut *)
MutV == 33

(* Number of shards of the DashMap *)
NumShards == 2

----------------------------------------------------------------------------
(* The hash table behind HashMapImpl / each DashMap shard.  Buckets hold    *)
(* the key and the owning pointer (Box<V> / Arc<V>) inline; the payload is  *)
(* on the heap.  Open addressing with linear probing; the bucket array is   *)
(* reallocated (a new generation) and every entry rehashed when it is full. *)

NoEntry == [used |-> FALSE, key |-> 0, slot |-> 0]

NewTable == [gen |-> 0, buckets |-> <<>>]

Hash(k) == k \div 2

Probe(bs, k, n) == ((Hash(k) + n) % Len(bs)) + 1

RECURSIVE FindFrom(_, _, _)
FindFrom(bs, k, n) ==
    IF n >= Len(bs) THEN 0
    ELSE LET i == Probe(bs, k, n) IN
         IF ~bs[i].used THEN 0
         ELSE IF bs[i].key = k THEN i
         ELSE FindFrom(bs, k, n + 1)

(* index of the bucket holding k, 0 when absent *)
Find(tbl, k) == FindFrom(tbl.buckets, k, 0)

(* Place without probing: the home bucket is written whoever is in it *)
Place_noprobe(bs, e, n) == [bs EXCEPT ![Probe(bs, e.key, 0)] = e]

RECURSIVE Place(_, _, _)
Place(bs, e, n) ==
    IF n >= Len(bs) THEN bs
    ELSE LET i == Probe(bs, e.key, n) IN
         IF ~bs[i].used \/ bs[i].key = e.key THEN [bs EXCEPT ![i] = e]
         ELSE Place(bs, e, n + 1)

RECURSIVE Rehash(_, _, _)
Rehash(old, new, i) ==
    IF i > Len(old) THEN new
    ELSE Rehash(old, IF old[i].used THEN Place(new, old[i], 0) ELSE new, i + 1)

Count(tbl) == Cardinality({i \in 1..Len(tbl.buckets) : tbl.buckets[i].used})

(* Grown without the rehash: the new array starts empty *)
Grown_lossy(tbl) ==
    LET cap == IF Len(tbl.buckets) = 0 THEN 1 ELSE 2 * Len(tbl.buckets) IN
    [gen |-> tbl.gen + 1, buckets |-> [i \in 1..cap |-> NoEntry]]

Grown(tbl) ==
    LET cap == IF Len(tbl.buckets) = 0 THEN 1 ELSE 2 * Len(tbl.buckets) IN
    [gen |-> tbl.gen + 1,
     buckets |-> Rehash(tbl.buckets, [i \in 1..cap |-> NoEntry], 1)]

(* entry(key) taken as vacant whatever the table holds (insert, not or_insert_with) *)
Vacant_always(tbl, k) == TRUE

(* Entry::Vacant / Entry::Occupied: what entry(key) finds *)
Vacant(tbl, k) == Find(tbl, k) = 0

(* contains_key answering whether the table holds anything *)
ContainsKey_nonempty(tbl, k) == Count(tbl) > 0

(* HashMap::contains_key *)
ContainsKey(tbl, k) == Find(tbl, k) # 0

(* VacantEntry::insert: reserve room (which may reallocate), then place *)
Insert(tbl, k, a) ==
    LET t2 == IF Count(tbl) = Len(tbl.buckets) THEN Grown(tbl) ELSE tbl IN
    [t2 EXCEPT !.buckets = Place(t2.buckets, [used |-> TRUE, key |-> k, slot |-> a], 0)]

(* the owning pointer stored for k (0 when absent) *)
SlotOf(tbl, k) == IF Find(tbl, k) = 0 THEN 0 ELSE tbl.buckets[Find(tbl, k)].slot

(* the (key, value) pairs a table holds, read through the owning pointers *)
Contents(tbl, hp) ==
    {[key |-> tbl.buckets[i].key, val |-> hp[tbl.buckets[i].slot].val] :
        i \in {j \in 1..Len(tbl.buckets) : tbl.buckets[j].used}}

----------------------------------------------------------------------------
(* Locks, shards, heap cells and pointers *)

ShardIdx == IF backend = "single" THEN {0} ELSE 0..(NumShards - 1)

(* DashMap::determine_map: the shard owning a key; the single table is shard 0 *)
ShardOf(k) == IF backend = "single" THEN 0 ELSE k % NumShards

(* The state of a lock: 0 (free), the thread holding it, or Poisoned: free, but
   a guard of it was dropped by a panicking thread (std::sync::Mutex only), so
   that lock() yields Err and mutex_lock_impl's unwrap() panics. *)
Poisoned == -1

(* a lock that excludes nobody *)
mutex_lock_none(holder) == TRUE

(* m.lock(): acquirable only when nobody holds it *)
mutex_lock_impl(holder) == holder = 0

(* a shard lock that excludes nobody *)
shard_lock_none(holder) == TRUE

(* DashMap::entry: the write lock of the key's shard, taken the same way *)
shard_lock(holder) == holder = 0

(* the guard dropped at the end of into_iter instead of kept in the Iter *)
iter_guard_dropped(t) == 0

(* the guard an Iter keeps in _guard: the lock stays with the iterating thread *)
iter_guard(t) == t

(* Box::new(v) / Arc::new(v): a fresh heap cell, one owner *)
NewCell(v) == [val |-> v, strong |-> 1, drops |-> 0]

(* an owner that goes away without giving its share back (mem::forget) *)
Release_keep(c) == c

(* dropping one owner of a cell: the value is destroyed (its memory no longer
   holds it) with the last one *)
Release(c) ==
    IF c.strong = 0 THEN [c EXCEPT !.drops = c.drops + 1]
    ELSE IF c.strong = 1 THEN [val |-> 0, strong |-> 0, drops |-> c.drops + 1]
    ELSE [c EXCEPT !.strong = c.strong - 1]

(* A pointer: "payload" (&V into a heap cell), "arcref" (an ArcRef, the copied
   Arc pointer) or "entry" (the address of a bucket of a table's array). *)
Ptr(kind, s, g, a) == [kind |-> kind, shard |-> s, gen |-> g, at |-> a]

(* what a read through the pointer shows in a given memory: {v}, or {} when
   the pointer dangles *)
DerefIn(p, alv, inn, hp) ==
    IF p.kind = "entry"
    THEN IF /\ alv
            /\ inn[p.shard].gen = p.gen
            /\ p.at \in 1..Len(inn[p.shard].buckets)
            /\ inn[p.shard].buckets[p.at].used
            /\ hp[inn[p.shard].buckets[p.at].slot].strong > 0
         THEN {hp[inn[p.shard].buckets[p.at].slot].val}
         ELSE {}
    ELSE IF p.at \in 1..Len(hp) /\ hp[p.at].strong > 0
         THEN {hp[p.at].val}
         ELSE {}

Deref(p) == DerefIn(p, alive, inner, heap)

NoIter == [pos |-> 0, done |-> FALSE, yielded |-> <<>>, snap |-> {}]

(* what a call returned: a handle ("ref") or contains_key's answer ("bool") *)
NoRet == [kind |-> "none", ptr |-> Ptr("null", 0, 0, 0), val |-> {},
          found |-> FALSE]

(* no call made by the running factory *)
NoNest == [op |-> "none", key |-> 0]

----------------------------------------------------------------------------
Init ==
    /\ backend \in {"single", "sharded"}
    /\ alive = TRUE
    /\ inner = [s \in ShardIdx |-> NewTable]
    /\ lock = [s \in ShardIdx |-> 0]
    /\ heap = <<>>
    /\ pc = [t \in Threads |-> "idle"]
    /\ key = [t \in Threads |-> 0]
    /\ fval = [t \in Threads |-> 0]
    /\ ret = [t \in Threads |-> NoRet]
    /\ owned = [t \in Threads |-> {}]
    /\ it = [t \in Threads |-> NoIter]
    /\ evals = [k \in Keys |-> 0]
    /\ first = [k \in Keys |-> {}]
    /\ seen = [k \in Keys |-> {}]
    /\ nest = [t \in Threads |-> NoNest]

(* a call of t starts: what the previous call returned is let go *)
Call(t, pos, k, v) ==
    /\ alive
    /\ pc[t] = "idle"
    /\ pc' = [pc EXCEPT ![t] = pos]
    /\ key' = [key EXCEPT ![t] = k]
    /\ fval' = [fval EXCEPT ![t] = v]
    /\ ret' = [ret EXCEPT ![t] = NoRet]
    /\ UNCHANGED <<backend, nest, alive, inner, lock, heap, owned, it, evals, first, seen>>

(* a cache call returns handle p for key k, read in the memory it leaves;
   key and fval stay as the arguments of the call that returned *)
Return(t, k, p, inn, hp) ==
    LET v == DerefIn(p, TRUE, inn, hp) IN
    /\ ret' = [ret EXCEPT ![t] = [NoRet EXCEPT !.kind = "ref", !.ptr = p, !.val = v]]
    /\ seen' = [seen EXCEPT ![k] = @ \cup {[ptr |-> p, val |-> v]}]
    /\ pc' = [pc EXCEPT ![t] = "idle"]
    /\ UNCHANGED <<key, fval>>

----------------------------------------------------------------------------
(* src/src/hashmap_impl.rs: CacheMap<K, V> over Mutex<HashMap<K, Box<V>>> *)

(* the address of the Box<V> inside the bucket, without the .as_ref() *)
box_ref_entry(s, tbl, k) == Ptr("entry", s, tbl.gen, Find(tbl, k))

(* .as_ref() on the &mut Box<V> the entry yields: the payload's address *)
box_as_ref(s, tbl, k) == Ptr("payload", s, 0, SlotOf(tbl, k))

(* cache(key, f) is called *)
cache_call(t, k, v) == backend = "single" /\ Call(t, "cache", k, v)

(* cache_default with a factory that yields some other value than the default *)
cache_default_other(t, k) == cache_call(t, k, 5)

(* cache_default(key) = self.cache(key, || Default::default()) *)
cache_default(t, k) == cache_call(t, k, DefaultV)

(* mutex_lock_impl(&self.inner).entry(key): occupied, so f is not called and
   the guard is dropped at the end of the statement *)
cache_occupied(t) ==
    /\ backend = "single"
    /\ pc[t] = "cache"
    /\ mutex_lock_impl(lock[0])
    /\ ~Vacant(inner[0], key[t])
    /\ Return(t, key[t], box_as_ref(0, inner[0], key[t]), inner, heap)
    /\ UNCHANGED <<backend, nest, alive, inner, lock, heap, owned, it, evals, first>>

(* f is run after the guard of the lookup has been dropped *)
cache_vacant_unlocked(t) ==
    /\ backend = "single"
    /\ pc[t] = "cache"
    /\ mutex_lock_impl(lock[0])
    /\ Vacant(inner[0], key[t])
    /\ evals' = [evals EXCEPT ![key[t]] = @ + 1]
    /\ pc' = [pc EXCEPT ![t] = "factory"]
    /\ UNCHANGED <<backend, nest, alive, inner, lock, heap, key, fval, ret, owned, it,
                   first, seen>>

(* ... vacant: or_insert_with starts running f, with the lock held *)
cache_vacant(t) ==
    /\ backend = "single"
    /\ pc[t] = "cache"
    /\ mutex_lock_impl(lock[0])
    /\ Vacant(inner[0], key[t])
    /\ lock' = [lock EXCEPT ![0] = t]
    /\ evals' = [evals EXCEPT ![key[t]] = @ + 1]
    /\ pc' = [pc EXCEPT ![t] = "factory"]
    /\ UNCHANGED <<backend, nest, alive, inner, heap, key, fval, ret, owned, it,
                   first, seen>>

(* the insert with the guard leaked: the lock stays with the thread *)
cache_insert_leak(t) ==
    /\ backend = "single"
    /\ pc[t] = "factory"
    /\ LET a == Len(heap) + 1
           hp == Append(heap, NewCell(fval[t]))
           tbl == Insert(inner[0], key[t], a) IN
       /\ heap' = hp
       /\ inner' = [inner EXCEPT ![0] = tbl]
       /\ first' = [first EXCEPT ![key[t]] = IF @ = {} THEN {fval[t]} ELSE @]
       /\ Return(t, key[t], box_as_ref(0, tbl, key[t]), inner', hp)
    /\ UNCHANGED <<backend, nest, alive, lock, owned, it, evals>>

(* f returns: BoxImpl::new(f()) is inserted, the guard dropped, &V returned *)
cache_insert(t) ==
    /\ backend = "single"
    /\ pc[t] = "factory"
    /\ LET a == Len(heap) + 1
           hp == Append(heap, NewCell(fval[t]))
           tbl == Insert(inner[0], key[t], a) IN
       /\ heap' = hp
       /\ inner' = [inner EXCEPT ![0] = tbl]
       /\ first' = [first EXCEPT ![key[t]] = IF @ = {} THEN {fval[t]} ELSE @]
       /\ Return(t, key[t], box_as_ref(0, tbl, key[t]), inner', hp)
    /\ lock' = [lock EXCEPT ![0] = 0]
    /\ UNCHANGED <<backend, nest, alive, owned, it, evals>>

(* contains_key(key) is called *)
contains_key_call(t, k) == backend = "single" /\ Call(t, "contains_key", k, 0)

(* mutex_lock_impl(&self.inner).contains_key(key) *)
contains_key(t) ==
    /\ backend = "single"
    /\ pc[t] = "contains_key"
    /\ mutex_lock_impl(lock[0])
    /\ ret' = [ret EXCEPT ![t] = [NoRet EXCEPT !.kind = "bool",
                                               !.found = ContainsKey(inner[0], key[t])]]
    /\ pc' = [pc EXCEPT ![t] = "idle"]
    /\ UNCHANGED <<backend, nest, alive, inner, lock, heap, key, fval, owned, it, evals,
                   first, seen>>

(* iter() = self.into_iter() is called *)
iter(t) == backend = "single" /\ Call(t, "iter_lock", 0, 0)

(* IntoIterator for &CacheMap: take the lock, keep the guard in the Iter *)
into_iter(t) ==
    /\ backend = "single"
    /\ pc[t] = "iter_lock"
    /\ mutex_lock_impl(lock[0])
    /\ lock' = [lock EXCEPT ![0] = iter_guard(t)]
    /\ it' = [it EXCEPT ![t] = [NoIter EXCEPT !.snap = Contents(inner[0], heap)]]
    /\ pc' = [pc EXCEPT ![t] = "iter"]
    /\ UNCHANGED <<backend, nest, alive, inner, heap, key, fval, ret, owned, evals,
                   first, seen>>

(* an iterator that steps over one bucket too many *)
Remaining_skip(tbl, pos) == {i \in (pos + 2)..Len(tbl.buckets) : tbl.buckets[i].used}

(* the buckets the table's iterator has still to visit *)
Remaining(tbl, pos) == {i \in (pos + 1)..Len(tbl.buckets) : tbl.buckets[i].used}

Min(S) == CHOOSE x \in S : \A y \in S : x <= y

(* Iter::next: the next occupied bucket as (&K, &V), or None at the end *)
next(t) ==
    /\ backend = "single"
    /\ pc[t] = "iter"
    /\ ~it[t].done
    /\ LET rem == Remaining(inner[0], it[t].pos) IN
       IF rem = {}
       THEN it' = [it EXCEPT ![t].done = TRUE]
       ELSE LET i == Min(rem)
                b == inner[0].buckets[i] IN
            it' = [it EXCEPT ![t].pos = i,
                             ![t].yielded = Append(@, [key |-> b.key,
                                                       val |-> heap[b.slot].val])]
    /\ UNCHANGED <<backend, nest, alive, inner, lock, heap, pc, key, fval, ret, owned,
                   evals, first, seen>>

(* the Iter is leaked (mem::forget) instead of dropped: its guard never unlocks *)
iter_forget(t) ==
    /\ backend = "single"
    /\ pc[t] = "iter"
    /\ it' = [it EXCEPT ![t] = NoIter]
    /\ pc' = [pc EXCEPT ![t] = "idle"]
    /\ UNCHANGED <<backend, nest, alive, inner, lock, heap, key, fval, ret, owned,
                   evals, first, seen>>

(* the Iter is dropped, and with it the guard *)
iter_drop(t) ==
    /\ backend = "single"
    /\ pc[t] = "iter"
    /\ lock' = [lock EXCEPT ![0] = 0]
    /\ it' = [it EXCEPT ![t] = NoIter]
    /\ pc' = [pc EXCEPT ![t] = "idle"]
    /\ UNCHANGED <<backend, nest, alive, inner, heap, key, fval, ret, owned, evals,
                   first, seen>>

----------------------------------------------------------------------------
(* src/src/lib.rs: CacheMap<K, V> over DashMap<K, Arc<V>> *)

(* *arc_ref: the ArcRef is a copy of the Arc's pointer, not a new share *)
arc_ref(s, tbl, k) == Ptr("arcref", s, 0, SlotOf(tbl, k))

(* cache(key, f) = self.cache_arc(key, || Arc::new(f())) is called *)
cache_arc_call(t, k, v) == backend = "sharded" /\ Call(t, "cache_arc", k, v)

(* self.inner.entry(key) locks the key's shard; occupied: f is not called,
   the ArcRef is copied out and the shard guard dropped *)
cache_arc_occupied(t) ==
    /\ backend = "sharded"
    /\ pc[t] = "cache_arc"
    /\ shard_lock(lock[ShardOf(key[t])])
    /\ ~Vacant(inner[ShardOf(key[t])], key[t])
    /\ Return(t, key[t], arc_ref(ShardOf(key[t]), inner[ShardOf(key[t])], key[t]),
              inner, heap)
    /\ UNCHANGED <<backend, nest, alive, inner, lock, heap, owned, it, evals, first>>

(* entry(key) locking every shard of the map instead of the key's *)
cache_arc_vacant_global(t) ==
    /\ backend = "sharded"
    /\ pc[t] = "cache_arc"
    /\ \A s \in ShardIdx : shard_lock(lock[s])
    /\ Vacant(inner[ShardOf(key[t])], key[t])
    /\ lock' = [s \in ShardIdx |-> t]
    /\ evals' = [evals EXCEPT ![key[t]] = @ + 1]
    /\ pc' = [pc EXCEPT ![t] = "arc_factory"]
    /\ UNCHANGED <<backend, nest, alive, inner, heap, key, fval, ret, owned, it,
                   first, seen>>

(* ... vacant: or_insert_with starts running f, with the shard locked *)
cache_arc_vacant(t) ==
    /\ backend = "sharded"
    /\ pc[t] = "cache_arc"
    /\ shard_lock(lock[ShardOf(key[t])])
    /\ Vacant(inner[ShardOf(key[t])], key[t])
    /\ lock' = [lock EXCEPT ![ShardOf(key[t])] = t]
    /\ evals' = [evals EXCEPT ![key[t]] = @ + 1]
    /\ pc' = [pc EXCEPT ![t] = "arc_factory"]
    /\ UNCHANGED <<backend, nest, alive, inner, heap, key, fval, ret, owned, it,
                   first, seen>>

(* f returns its Arc<V>: it is inserted, the ArcRef copied out, the shard
   guard dropped *)
cache_arc_insert(t) ==
    /\ backend = "sharded"
    /\ pc[t] = "arc_factory"
    /\ LET s == ShardOf(key[t])
           a == Len(heap) + 1
           hp == Append(heap, NewCell(fval[t]))
           tbl == Insert(inner[s], key[t], a) IN
       /\ heap' = hp
       /\ inner' = [inner EXCEPT ![s] = tbl]
       /\ first' = [first EXCEPT ![key[t]] = IF @ = {} THEN {fval[t]} ELSE @]
       /\ Return(t, key[t], arc_ref(s, tbl, key[t]), inner', hp)
       /\ lock' = [lock EXCEPT ![s] = 0]
    /\ UNCHANGED <<backend, nest, alive, owned, it, evals>>

(* a copy of the Arc pointer that takes no share *)
ArcClone_nocount(c) == c

(* Arc::clone: one more share of the cell *)
ArcClone(c) == [c EXCEPT !.strong = c.strong + 1]

(* ArcRef::as_ref: &**self as *const T, the payload's address, as &'a T *)
as_ref(p) == Ptr("payload", p.shard, 0, p.at)

(* ArcRef::to_arc on the handle the last call returned: self.deref().clone() *)
to_arc(t) ==
    /\ backend = "sharded"
    /\ pc[t] = "idle"
    /\ ret[t].kind = "ref"
    /\ owned[t] = {}
    /\ heap' = [heap EXCEPT ![ret[t].ptr.at] = ArcClone(@)]
    /\ owned' = [owned EXCEPT ![t] = {[at |-> ret[t].ptr.at, val |-> Deref(ret[t].ptr)]}]
    /\ UNCHANGED <<backend, nest, alive, inner, lock, pc, key, fval, ret, it, evals,
                   first, seen>>

(* the borrow of the map that a returned handle carries ends *)
release(t) ==
    /\ backend = "sharded"
    /\ pc[t] = "idle"
    /\ ret[t].kind = "ref"
    /\ ret' = [ret EXCEPT ![t] = NoRet]
    /\ key' = [key EXCEPT ![t] = 0]
    /\ fval' = [fval EXCEPT ![t] = 0]
    /\ UNCHANGED <<backend, nest, alive, inner, lock, heap, pc, owned, it, evals, first,
                   seen>>

(* the map goes out of scope: the DashMap drops the Arc<V> of every entry.
   The borrow checker admits this only once no borrow of the map is left. *)
drop_map ==
    /\ backend = "sharded" /\ alive
    /\ \A t \in Threads : pc[t] = "idle" /\ ret[t].kind # "ref"
    /\ alive' = FALSE
    /\ heap' = [a \in DOMAIN heap |->
                  IF \E s \in ShardIdx : \E i \in 1..Len(inner[s].buckets) :
                        inner[s].buckets[i].used /\ inner[s].buckets[i].slot = a
                  THEN Release(heap[a]) ELSE heap[a]]
    /\ inner' = [s \in ShardIdx |-> NewTable]
    /\ UNCHANGED <<backend, nest, lock, pc, key, fval, ret, owned, it, evals, first, seen>>

(* a thread drops an Arc<V> it owns *)
drop_arc(t, o) ==
    /\ backend = "sharded"
    /\ pc[t] = "idle"
    /\ o \in owned[t]
    /\ heap' = [heap EXCEPT ![o.at] = Release(@)]
    /\ owned' = [owned EXCEPT ![t] = @ \ {o}]
    /\ UNCHANGED <<backend, nest, alive, inner, lock, pc, key, fval, ret, it, evals,
                   first, seen>>

(* Arc::make_mut(&mut arc).0 = MutV: in place when the Arc is the only share,
   else on a fresh clone of the value, giving up the share of the old cell *)
make_mut(t, o) ==
    /\ backend = "sharded"
    /\ pc[t] = "idle"
    /\ o \in owned[t]
    /\ IF heap[o.at].strong = 1
       THEN /\ heap' = [heap EXCEPT ![o.at].val = MutV]
            /\ owned' = [owned EXCEPT ![t] = (@ \ {o}) \cup {[at |-> o.at, val |-> {MutV}]}]
       ELSE /\ Len(heap) < NumKeys + MaxClones
            /\ heap' = Append([heap EXCEPT ![o.at] = Release(@)], NewCell(MutV))
            /\ owned' = [owned EXCEPT ![t] =
                           (@ \ {o}) \cup {[at |-> Len(heap) + 1, val |-> {MutV}]}]
    /\ UNCHANGED <<backend, nest, alive, inner, lock, pc, key, fval, ret, it, evals,
                   first, seen>>

----------------------------------------------------------------------------
Next ==
    \/ \E t \in Threads, k \in Keys, v \in Vals : cache_call(t, k, v)
    \/ \E t \in Threads, k \in Keys : cache_default(t, k)
    \/ \E t \in Threads : cache_occupied(t)
    \/ \E t \in Threads : cache_vacant(t)
    \/ \E t \in Threads : cache_insert(t)
    \/ \E t \in Threads, k \in Keys : contains_key_call(t, k)
    \/ \E t \in Threads : contains_key(t)
    \/ \E t \in Threads : iter(t)
    \/ \E t \in Threads : into_iter(t)
    \/ \E t \in Threads : next(t)
    \/ \E t \in Threads : iter_drop(t)
    \/ \E t \in Threads, k \in Keys, v \in Vals : cache_arc_call(t, k, v)
    \/ \E t \in Threads : cache_arc_occupied(t)
    \/ \E t \in Threads : cache_arc_vacant(t)
    \/ \E t \in Threads : cache_arc_insert(t)
    \/ \E t \in Threads : to_arc(t)
    \/ \E t \in Threads : release(t)
    \/ drop_map
    \/ \E t \in Threads : \E o \in owned[t] : drop_arc(t, o)
    \/ \E t \in Threads : \E o \in owned[t] : make_mut(t, o)

Spec == Init /\ [][Next]_vars

----------------------------------------------------------------------------
(* A factory that panics.  or_insert_with calls f before anything is inserted
   (hashmap_impl.rs:156, lib.rs:102); the panic unwinds through cache, dropping
   the vacant entry and the guard of the lock, and reaches the caller. *)

(* a MutexGuard dropped during a panic without marking the mutex *)
mutex_unwind_clean(holder) == 0

(* std::sync::MutexGuard dropped while its thread panics: the Mutex is free
   again and poisoned *)
mutex_unwind(holder) == Poisoned

(* the shard's write guard (DashMap: a lock_api RwLock) dropped while its thread
   panics: the shard is free again; these locks do not poison *)
shard_unwind(holder) == 0

(* how a call that did not return ended, left in ret: "panicked" (the panic of
   its own factory) or "poisoned" (unwrap() of the PoisonError) *)
Unwound(how) == [NoRet EXCEPT !.kind = how]

(* f panics after a half-built entry was put in the table *)
cache_panic_partial(t) ==
    /\ backend = "single"
    /\ pc[t] = "factory"
    /\ evals[key[t]] <= MaxPanics
    /\ heap' = Append(heap, NewCell(0))
    /\ inner' = [inner EXCEPT ![0] = Insert(@, key[t], Len(heap) + 1)]
    /\ lock' = [lock EXCEPT ![0] = mutex_unwind(@)]
    /\ ret' = [ret EXCEPT ![t] = Unwound("panicked")]
    /\ pc' = [pc EXCEPT ![t] = "idle"]
    /\ UNCHANGED <<backend, nest, alive, key, fval, owned, it, evals, first, seen>>

(* cache (single lock): f panics inside or_insert_with *)
cache_panic(t) ==
    /\ backend = "single"
    /\ pc[t] = "factory"
    /\ evals[key[t]] <= MaxPanics
    /\ lock' = [lock EXCEPT ![0] = mutex_unwind(@)]
    /\ ret' = [ret EXCEPT ![t] = Unwound("panicked")]
    /\ pc' = [pc EXCEPT ![t] = "idle"]
    /\ UNCHANGED <<backend, nest, alive, inner, heap, key, fval, owned, it, evals,
                   first, seen>>

(* mutex_lock_impl on a poisoned Mutex, in cache, contains_key or into_iter:
   lock() is Err(PoisonError), unwrap() panics, and the guard inside the error
   is dropped by the panicking thread *)
lock_poisoned(t) ==
    /\ backend = "single"
    /\ pc[t] \in {"cache", "contains_key", "iter_lock"}
    /\ lock[0] = Poisoned
    /\ lock' = [lock EXCEPT ![0] = mutex_unwind(@)]
    /\ ret' = [ret EXCEPT ![t] = Unwound("poisoned")]
    /\ pc' = [pc EXCEPT ![t] = "idle"]
    /\ UNCHANGED <<backend, nest, alive, inner, heap, key, fval, owned, it, evals,
                   first, seen>>

(* cache_arc (sharded): f panics inside or_insert_with *)
cache_arc_panic(t) ==
    /\ backend = "sharded"
    /\ pc[t] = "arc_factory"
    /\ evals[key[t]] <= MaxPanics
    /\ lock' = [lock EXCEPT ![ShardOf(key[t])] = shard_unwind(@)]
    /\ ret' = [ret EXCEPT ![t] = Unwound("panicked")]
    /\ pc' = [pc EXCEPT ![t] = "idle"]
    /\ UNCHANGED <<backend, nest, alive, inner, heap, key, fval, owned, it, evals,
                   first, seen>>

(* the calls of both maps, the borrowing iterator, and factories that panic *)
NextPanic ==
    \/ \E t \in Threads, k \in Keys, v \in Vals : cache_call(t, k, v)
    \/ \E t \in Threads, k \in Keys : cache_default(t, k)
    \/ \E t \in Threads : cache_occupied(t)
    \/ \E t \in Threads : cache_vacant(t)
    \/ \E t \in Threads : cache_insert(t)
    \/ \E t \in Threads : cache_panic(t)
    \/ \E t \in Threads : lock_poisoned(t)
    \/ \E t \in Threads, k \in Keys : contains_key_call(t, k)
    \/ \E t \in Threads : contains_key(t)
    \/ \E t \in Threads : iter(t)
    \/ \E t \in Threads : into_iter(t)
    \/ \E t \in Threads : next(t)
    \/ \E t \in Threads : iter_drop(t)
    \/ \E t \in Threads, k \in Keys, v \in Vals : cache_arc_call(t, k, v)
    \/ \E t \in Threads : cache_arc_occupied(t)
    \/ \E t \in Threads : cache_arc_vacant(t)
    \/ \E t \in Threads : cache_arc_insert(t)
    \/ \E t \in Threads : cache_arc_panic(t)

SpecPanic == Init /\ [][NextPanic]_vars

----------------------------------------------------------------------------
(* src/src/hashmap_impl.rs: construction from pairs and the consuming iterator *)

(* the pairs a caller can hand to from_iter: sequences of (key, value) with
   distinct keys *)
PairSeqs ==
    UNION {{q \in [1..n -> [key : Keys, val : Vals]] :
               \A i, j \in 1..n : q[i].key = q[j].key => i = j} : n \in 0..NumKeys}

(* .map(|(k, v)| (k, BoxImpl::new(v))).collect(): each value boxed, each pair
   inserted into the table *)
RECURSIVE FromIter(_, _, _)
FromIter(tbl, hp, q) ==
    IF q = <<>> THEN [tbl |-> tbl, hp |-> hp]
    ELSE FromIter(Insert(tbl, Head(q).key, Len(hp) + 1),
                  Append(hp, NewCell(Head(q).val)), Tail(q))

(* a collect that loses the last pair *)
from_iter_short(q) == FromIter(NewTable, <<>>, SubSeq(q, 1, Len(q) - 1))

(* FromIterator::from_iter: the table and the heap of the new map *)
from_iter(q) == FromIter(NewTable, <<>>, q)

(* the map is built by from_iter (by new, when there are no pairs) *)
InitOwned ==
    /\ backend = "single"
    /\ alive = TRUE
    /\ \E q \in PairSeqs :
          /\ inner = [s \in {0} |-> from_iter(q).tbl]
          /\ heap = from_iter(q).hp
          /\ first = [k \in Keys |-> {q[i].val : i \in {j \in 1..Len(q) : q[j].key = k}}]
    /\ lock = [s \in {0} |-> 0]
    /\ pc = [t \in Threads |-> "idle"]
    /\ key = [t \in Threads |-> 0]
    /\ fval = [t \in Threads |-> 0]
    /\ ret = [t \in Threads |-> NoRet]
    /\ owned = [t \in Threads |-> {}]
    /\ it = [t \in Threads |-> NoIter]
    /\ evals = [k \in Keys |-> 0]
    /\ seen = [k \in Keys |-> {}]
    /\ nest = [t \in Threads |-> NoNest]

(* the &V a cache call returned goes out of scope: its borrow of the map ends *)
handle_end(t) ==
    /\ backend = "single"
    /\ pc[t] = "idle"
    /\ ret[t].kind = "ref"
    /\ ret' = [ret EXCEPT ![t] = NoRet]
    /\ key' = [key EXCEPT ![t] = 0]
    /\ fval' = [fval EXCEPT ![t] = 0]
    /\ UNCHANGED <<backend, nest, alive, inner, lock, heap, pc, owned, it, evals,
                   first, seen>>

(* m.into_inner().unwrap(): the table is taken out of the Mutex without
   locking it; Err, and a panic, only if the Mutex is poisoned *)
mutex_into_inner_impl(holder) == holder # Poisoned

(* *b: the value moved out of its Box, whose allocation is freed; the value
   itself is not destroyed *)
box_into_inner_impl(c) == [val |-> 0, strong |-> 0, drops |-> c.drops]

(* IntoIterator for CacheMap: into_iter(self) moves the map into the iterator.
   The move is admitted only when no call runs and no borrow is left. *)
into_iter_owned(t) ==
    /\ backend = "single" /\ alive
    /\ \A u \in Threads : pc[u] = "idle" /\ ret[u].kind # "ref"
    /\ mutex_into_inner_impl(lock[0])
    /\ alive' = FALSE
    /\ pc' = [pc EXCEPT ![t] = "into_iter"]
    /\ it' = [it EXCEPT ![t] = [NoIter EXCEPT !.snap = Contents(inner[0], heap)]]
    /\ UNCHANGED <<backend, nest, inner, lock, heap, key, fval, ret, owned, evals,
                   first, seen>>

(* IntoIter::next: the next entry leaves the table as (K, V), its Box opened
   by box_into_inner_impl; None at the end *)
next_owned(t) ==
    /\ backend = "single"
    /\ pc[t] = "into_iter"
    /\ ~it[t].done
    /\ LET rem == Remaining(inner[0], it[t].pos) IN
       IF rem = {}
       THEN /\ it' = [it EXCEPT ![t].done = TRUE]
            /\ UNCHANGED <<inner, heap>>
       ELSE LET i == Min(rem)
                b == inner[0].buckets[i] IN
            /\ it' = [it EXCEPT ![t].pos = i,
                                ![t].yielded = Append(@, [key |-> b.key,
                                                          val |-> heap[b.slot].val])]
            /\ inner' = [inner EXCEPT ![0].buckets[i] = NoEntry]
            /\ heap' = [heap EXCEPT ![b.slot] = box_into_inner_impl(@)]
    /\ UNCHANGED <<backend, nest, alive, lock, pc, key, fval, ret, owned, evals,
                   first, seen>>

(* the IntoIter is dropped: the entries it has not yielded are dropped with it *)
into_iter_drop(t) ==
    /\ backend = "single"
    /\ pc[t] = "into_iter"
    /\ heap' = [a \in DOMAIN heap |->
                  IF \E i \in 1..Len(inner[0].buckets) :
                        inner[0].buckets[i].used /\ inner[0].buckets[i].slot = a
                  THEN Release(heap[a]) ELSE heap[a]]
    /\ inner' = [inner EXCEPT ![0] = NewTable]
    /\ it' = [it EXCEPT ![t] = NoIter]
    /\ pc' = [pc EXCEPT ![t] = "idle"]
    /\ UNCHANGED <<backend, nest, alive, lock, key, fval, ret, owned, evals,
                   first, seen>>

(* a map built from pairs and by cache calls, then consumed *)
NextOwned ==
    \/ \E t \in Threads, k \in Keys, v \in Vals : cache_call(t, k, v)
    \/ \E t \in Threads : cache_occupied(t)
    \/ \E t \in Threads : cache_vacant(t)
    \/ \E t \in Threads : cache_insert(t)
    \/ \E t \in Threads : handle_end(t)
    \/ \E t \in Threads : into_iter_owned(t)
    \/ \E t \in Threads : next_owned(t)
    \/ \E t \in Threads : into_iter_drop(t)

SpecOwned == InitOwned /\ [][NextOwned]_vars

----------------------------------------------------------------------------
(* The calls of both maps and the borrowing iterator under fair scheduling:
   factories return, iterators are dropped, and a call that could take its lock
   again and again does take it. *)

NextLive ==
    \/ \E t \in Threads, k \in Keys, v \in Vals : cache_call(t, k, v)
    \/ \E t \in Threads, k \in Keys : cache_default(t, k)
    \/ \E t \in Threads : cache_occupied(t)
    \/ \E t \in Threads : cache_vacant(t)
    \/ \E t \in Threads : cache_insert(t)
    \/ \E t \in Threads, k \in Keys : contains_key_call(t, k)
    \/ \E t \in Threads : contains_key(t)
    \/ \E t \in Threads : iter(t)
    \/ \E t \in Threads : into_iter(t)
    \/ \E t \in Threads : next(t)
    \/ \E t \in Threads : iter_drop(t)
    \/ \E t \in Threads, k \in Keys, v \in Vals : cache_arc_call(t, k, v)
    \/ \E t \in Threads : cache_arc_occupied(t)
    \/ \E t \in Threads : cache_arc_vacant(t)
    \/ \E t \in Threads : cache_arc_insert(t)

Fairness ==
    \A t \in Threads :
        /\ WF_vars(cache_insert(t))
        /\ WF_vars(cache_arc_insert(t))
        /\ WF_vars(iter_drop(t))
        /\ SF_vars(cache_occupied(t) \/ cache_vacant(t))
        /\ SF_vars(contains_key(t))
        /\ SF_vars(cache_arc_occupied(t) \/ cache_arc_vacant(t))

SpecLive == Init /\ [][NextLive]_vars /\ Fairness

----------------------------------------------------------------------------
(* A reentrant factory: f, run by or_insert_with under the lock of its key
   (hashmap_impl.rs:154-156, lib.rs:102), calls an operation of the same map. *)

(* the calls a factory can make: lib.rs has cache and cache_arc only *)
NestOps == IF backend = "single" THEN {"cache", "contains_key", "iter"} ELSE {"cache"}

(* the factory of t calls op(k) on the map it is called from *)
reenter(t, op, k) ==
    /\ pc[t] \in {"factory", "arc_factory"}
    /\ nest[t] = NoNest
    /\ op \in NestOps
    /\ nest' = [nest EXCEPT ![t] = [op |-> op, key |-> k]]
    /\ UNCHANGED <<backend, alive, inner, lock, heap, pc, key, fval, ret, owned, it,
                   evals, first, seen>>

(* the lock the call of a factory needs: mutex_lock_impl(&self.inner), or the
   shard of its key in self.inner.entry(key) *)
nested_lock(holder) ==
    IF backend = "single" THEN mutex_lock_impl(holder) ELSE shard_lock(holder)

(* the call made by the factory of t gets its lock, runs (a cache call on an
   absent key runs its own factory, which yields v, and inserts), drops the
   guard and returns into the factory *)
nested_call(t, v) ==
    /\ nest[t].op # "none"
    /\ nested_lock(lock[ShardOf(nest[t].key)])
    /\ LET k == nest[t].key
           s == ShardOf(k)
           a == Len(heap) + 1
           hp == Append(heap, NewCell(v))
           tbl == Insert(inner[s], k, a) IN
       IF nest[t].op = "cache" /\ Vacant(inner[s], k)
       THEN /\ heap' = hp
            /\ inner' = [inner EXCEPT ![s] = tbl]
            /\ evals' = [evals EXCEPT ![k] = @ + 1]
            /\ first' = [first EXCEPT ![k] = IF @ = {} THEN {v} ELSE @]
       ELSE UNCHANGED <<heap, inner, evals, first>>
    /\ nest' = [nest EXCEPT ![t] = NoNest]
    /\ UNCHANGED <<backend, alive, lock, pc, key, fval, ret, owned, it, seen>>

(* the calls of both maps, with factories that may call the map; a factory
   returns only once the call it made has returned *)
NextReentrant ==
    \/ \E t \in Threads, k \in Keys, v \in Vals : cache_call(t, k, v)
    \/ \E t \in Threads : cache_occupied(t)
    \/ \E t \in Threads : cache_vacant(t)
    \/ \E t \in Threads : nest[t] = NoNest /\ cache_insert(t)
    \/ \E t \in Threads, k \in Keys : contains_key_call(t, k)
    \/ \E t \in Threads : contains_key(t)
    \/ \E t \in Threads, k \in Keys, v \in Vals : cache_arc_call(t, k, v)
    \/ \E t \in Threads : cache_arc_occupied(t)
    \/ \E t \in Threads : cache_arc_vacant(t)
    \/ \E t \in Threads : nest[t] = NoNest /\ cache_arc_insert(t)
    \/ \E t \in Threads, op \in {"cache", "contains_key"}, k \in Keys : reenter(t, op, k)
    \/ \E t \in Threads : reenter(t, "iter", 0)
    \/ \E t \in Threads, v \in Vals : nested_call(t, v)

SpecReentrant == Init /\ [][NextReentrant]_vars

----------------------------------------------------------------------------
(* What the properties below read from a state *)

(* the owning pointers stored under key k, over all buckets of all shards *)
SlotsFor(inn, k) ==
    UNION {{inn[s].buckets[i].slot :
               i \in {j \in 1..Len(inn[s].buckets) :
                         inn[s].buckets[j].used /\ inn[s].buckets[j].key = k}} :
           s \in DOMAIN inn}

(* the buckets holding key k, over all shards *)
BucketsFor(inn, k) ==
    UNION {{<<s, i>> :
               i \in {j \in 1..Len(inn[s].buckets) :
                         inn[s].buckets[j].used /\ inn[s].buckets[j].key = k}} :
           s \in DOMAIN inn}

(* what a lookup of k shows: {} when absent, else {value} *)
Get(inn, hp, k) ==
    IF Find(inn[ShardOf(k)], k) = 0 THEN {}
    ELSE {hp[SlotOf(inn[ShardOf(k)], k)].val}

SeqToSet(q) == {q[i] : i \in 1..Len(q)}

(* the pairs committed so far, by the record of first commits *)
Committed == UNION {{[key |-> k, val |-> v] : v \in first[k]} : k \in Keys}

(* the number of threads owning an Arc to cell a *)
Owners(a) == Cardinality({t \in Threads : \E o \in owned[t] : o.at = a})

Holds(t) == pc[t] = "idle" /\ ret[t].kind = "ref"

----------------------------------------------------------------------------
(* C1 -- first writer wins: a handle returned by cache(k, f2) shows the value
   that the first committed cache(k, f1) produced, whatever f2 would have
   produced; so does every handle ever returned for k and, while the map is
   alive, a lookup of k. *)
C1_FirstWriterWins ==
    /\ \A t \in Threads : Holds(t) => ret[t].val = first[key[t]] /\ ret[t].val # {}
    /\ \A k \in Keys : \A h \in seen[k] : h.val = first[k]
    /\ \A k \in Keys : alive /\ first[k] # {} => Get(inner, heap, k) = first[k]

(* a later cache(k, || 7) has returned 5, the value of the first commit *)
C1_Witness ==
    \E t \in Threads : Holds(t) /\ first[key[t]] = {5} /\ fval[t] = 7 /\ ret[t].val = {5}

(* C2 -- single evaluation under race: in either backend the factory of a key
   is never started more than once, and once a cache call for the key has
   returned it has been started exactly once. *)
C2_SingleEvaluation ==
    \A k \in Keys :
        /\ evals[k] <= 1
        /\ (seen[k] # {} \/ first[k] # {}) => evals[k] = 1

(* two calls race for one absent key: one runs its factory, the other waits *)
C2_Witness ==
    \E t, u \in Threads :
        /\ t # u /\ key[t] = key[u] /\ evals[key[t]] = 1
        /\ \/ pc[t] = "factory" /\ pc[u] = "cache"
           \/ pc[t] = "arc_factory" /\ pc[u] = "cache_arc"

(* C3 -- agreement per key: all cache calls for a key have returned the same
   pointer and the same value; handles held for one key are equal; and while
   the map is alive that value is still what the pointer and a lookup show. *)
C3_Agreement ==
    /\ \A k \in Keys : Cardinality(seen[k]) <= 1
    /\ \A t, u \in Threads :
          Holds(t) /\ Holds(u) /\ key[t] = key[u]
             => ret[t].ptr = ret[u].ptr /\ ret[t].val = ret[u].val
    /\ \A k \in Keys : \A h \in seen[k] :
          alive => Deref(h.ptr) = h.val /\ Get(inner, heap, k) = h.val

(* two threads hold handles for one key, obtained with different factories *)
C3_Witness ==
    \E t, u \in Threads :
        /\ t # u /\ Holds(t) /\ Holds(u)
        /\ key[t] = key[u] /\ fval[t] # fval[u] /\ ret[t].ptr = ret[u].ptr

(* one step of the map, as C4 reads it *)
C4_Step ==
    /\ \A k \in Keys : Cardinality(BucketsFor(inner, k)) <= 1
    /\ \A k \in Keys : Cardinality(BucketsFor(inner', k)) <= 1
    /\ alive' =>
          \A k \in Keys : \A a \in SlotsFor(inner, k) :
             /\ SlotsFor(inner', k) = {a}
             /\ heap'[a].val = heap[a].val
             /\ Get(inner', heap', k) = Get(inner, heap, k)
             /\ Get(inner, heap, k) # {}

(* C4 -- insert-only: every state holds at most one slot per key; and a step
   that leaves the map alive keeps, for every key that has a slot, that very
   slot with that very value. *)
C4_InsertOnly == [][C4_Step]_vars

(* every key has its slot and the bucket array has been reallocated since *)
C4_Witness ==
    /\ alive
    /\ \A k \in Keys : SlotsFor(inner, k) # {}
    /\ \E s \in DOMAIN inner : inner[s].gen >= 2

(* one step of a cache call, as C5 reads it *)
C5_Step ==
    \A t \in Threads :
        pc[t] \in {"cache", "factory", "cache_arc", "arc_factory"} /\ pc'[t] # pc[t]
           => \A k \in Keys \ {key[t]} :
                 /\ Get(inner', heap', k) = Get(inner, heap, k)
                 /\ SlotsFor(inner', k) = SlotsFor(inner, k)

(* C5 -- key isolation: a step of a cache call on key k (hit, factory start or
   insert) leaves what a lookup of every other key shows unchanged. *)
C5_KeyIsolation == [][C5_Step]_vars

(* cache(0, 5), cache(1, 7), then cache(0, 7) returned: 0 and 1 are still 5 and 7 *)
C5_Witness ==
    /\ Get(inner, heap, 0) = {5} /\ Get(inner, heap, 1) = {7}
    /\ \E t \in Threads : Holds(t) /\ key[t] = 0 /\ fval[t] = 7 /\ ret[t].val = {5}

(* the step in which contains_key answers, as C6 reads it *)
C6_Step ==
    \A t \in Threads :
        pc[t] = "contains_key" /\ pc'[t] = "idle"
           => /\ ret'[t].kind = "bool"
              /\ ret'[t].found = (first[key[t]] # {})
              /\ seen[key[t]] # {} => ret'[t].found

(* C6 -- existence check: contains_key(k) answers true exactly when a cache
   or cache_default call for k has committed its entry. *)
C6_ContainsKey == [][C6_Step]_vars

(* a key never cached was reported absent while another key is present *)
C6_Witness ==
    \E t \in Threads :
        /\ pc[t] = "idle" /\ ret[t].kind = "bool" /\ ~ret[t].found
        /\ first[key[t]] = {}
        /\ \E k \in Keys : first[k] # {}

(* C7 -- handle stability: while the map is alive every handle ever returned
   (and the &V that as_ref makes of an ArcRef) still shows the value it showed
   when returned, and is still the address of the key's payload. *)
C7_HandleStability ==
    alive =>
       /\ \A k \in Keys : \A h \in seen[k] :
             /\ h.val # {}
             /\ Deref(h.ptr) = h.val
             /\ Deref(as_ref(h.ptr)) = h.val
             /\ Deref(box_as_ref(ShardOf(k), inner[ShardOf(k)], k)) = h.val
       /\ \A t \in Threads : Holds(t) => Deref(ret[t].ptr) = ret[t].val

(* the handle returned for the first entry ever inserted still reads its value
   after another insert has reallocated the table *)
C7_Witness ==
    /\ alive /\ backend = "single" /\ inner[0].gen >= 2
    /\ \E k \in Keys : \E h \in seen[k] : h.ptr.at = 1 /\ Deref(h.ptr) = h.val

(* C8 -- borrowing iteration: a traversal that has reached its end has
   yielded exactly the committed pairs, each once. *)
C8_IterComplete ==
    \A t \in Threads :
        pc[t] = "iter" /\ it[t].done
           => /\ SeqToSet(it[t].yielded) = Committed
              /\ Len(it[t].yielded) = Cardinality(Committed)
              /\ \A i, j \in 1..Len(it[t].yielded) :
                    it[t].yielded[i].key = it[t].yielded[j].key => i = j

(* a finished traversal of a map holding every key *)
C8_Witness ==
    \E t \in Threads :
        pc[t] = "iter" /\ it[t].done /\ Len(it[t].yielded) = NumKeys

(* the state and step conditions of a live iterator, as C9 reads them *)
C9_Inv ==
    /\ \A t \in Threads :
          pc[t] = "iter"
             => /\ lock[0] = t
                /\ Contents(inner[0], heap) = it[t].snap
                /\ SeqToSet(it[t].yielded) \subseteq it[t].snap
                /\ it[t].done => SeqToSet(it[t].yielded) = it[t].snap
    /\ \A u \in Threads :
          backend = "single" /\ lock[0] = 0
             => /\ pc[u] = "cache" => ENABLED (cache_occupied(u) \/ cache_vacant(u))
                /\ pc[u] = "contains_key" => ENABLED contains_key(u)
                /\ pc[u] = "iter_lock" => ENABLED into_iter(u)

C9_Step ==
    \A t \in Threads :
        pc[t] = "iter"
           => /\ inner' = inner /\ heap' = heap /\ first' = first
              /\ \A u \in Threads \ {t} : pc[u] # "idle" => pc'[u] = pc[u]
              /\ pc'[t] # "iter" => lock'[0] = 0

(* C9 -- the borrowing iterator holds the lock from creation to drop: while it
   is live its thread holds the lock, the map is the snapshot taken at
   creation, what it yields comes from that snapshot, no step changes the map
   and no call of another thread advances; its drop frees the lock, and with
   the lock free every waiting call can take its step. *)
C9_IterHoldsLock == [](C9_Inv) /\ [][C9_Step]_vars

(* a finished traversal while another thread's cache call waits for the lock *)
C9_Witness ==
    \E t, u \in Threads :
        /\ pc[t] = "iter" /\ it[t].done /\ it[t].snap # {}
        /\ pc[u] = "cache" /\ Vacant(inner[0], key[u])

(* C10 -- shared-owned values outlive the map: an Arc a thread owns is alive
   and shows the value it showed; a cell's count is one for the map (while
   alive) plus one per owning thread; its value is destroyed once, exactly
   when the count reaches zero; so after the map is dropped a sole Arc is the
   only share, and make_mut writes the stored value in place. *)
C10_ArcOutlivesMap ==
    backend = "sharded" =>
       /\ \A t \in Threads : \A o \in owned[t] :
             /\ heap[o.at].strong >= 1
             /\ o.val = {heap[o.at].val}
       /\ \A a \in DOMAIN heap :
             /\ heap[a].strong =
                   Owners(a) + (IF alive /\ \E k \in Keys : a \in SlotsFor(inner, k)
                                THEN 1 ELSE 0)
             /\ heap[a].drops = (IF heap[a].strong = 0 THEN 1 ELSE 0)
             /\ ~alive /\ Owners(a) = 1 => heap[a].strong = 1

(* the map is gone, one Arc is left, and the write through it went to the one
   cell ever allocated *)
C10_Witness ==
    /\ ~alive /\ Len(heap) = 1
    /\ \E t \in Threads : owned[t] = {[at |-> 1, val |-> {MutV}]}
    /\ heap[1].val = MutV /\ heap[1].strong = 1 /\ heap[1].drops = 0

----------------------------------------------------------------------------
(* Properties of calls whose factory panics, under SpecPanic *)

(* the calls that wait for, or are about to take, the lock of their key *)
Waiting == {"cache", "contains_key", "iter_lock", "cache_arc"}

(* the state conditions of C11 *)
C11_Inv ==
    /\ \A k \in Keys :
          /\ ContainsKey(inner[ShardOf(k)], k) <=> first[k] # {}
          /\ Get(inner, heap, k) = first[k]
          /\ \A h \in seen[k] : h.val # {} /\ h.val = first[k]
    /\ \A t \in Threads :
          /\ ret[t].kind \in {"panicked", "poisoned"}
                => ret[t].val = {} /\ ret[t].ptr.kind = "null"
          /\ ret[t].kind = "ref" => ret[t].val = first[key[t]] /\ ret[t].val # {}
          /\ ret[t].kind = "bool" /\ ret[t].found => first[key[t]] # {}

(* the step in which a factory panics, as C11 reads it *)
C11_Step ==
    \A t \in Threads :
        pc[t] \in {"factory", "arc_factory"} /\ ret'[t].kind = "panicked"
           => /\ pc'[t] = "idle"
              /\ ~ContainsKey(inner'[ShardOf(key[t])], key[t])
              /\ Get(inner', heap', key[t]) = {}
              /\ \A k \in Keys : Get(inner', heap', k) = Get(inner, heap, k)
              /\ heap' = heap /\ first' = first /\ seen' = seen

(* C11 -- no partial entry on factory panic: the step in which the factory of
   cache(k, f) panics ends the call with the panic and no handle, leaves k
   absent and every lookup as it was; in every state the keys present are
   exactly those whose factory returned, they hold the value it returned, and
   every handle ever given out shows such a value. *)
C11_NoPartialEntry == [](C11_Inv) /\ [][C11_Step]_vars

(* the factory of cache(k, ..) panicked, and a later cache(k, g) of another
   thread ran g and returned g's value: k had stayed absent *)
C11_Witness ==
    \E t, u \in Threads :
        /\ t # u /\ pc[t] = "idle" /\ ret[t].kind = "panicked"
        /\ Holds(u) /\ key[u] = key[t] /\ evals[key[t]] = 2
        /\ ret[u].val = {fval[u]}

(* C12 as stated -- after the factory of cache(k, f) has panicked, a later call
   for another key still completes with a result: no call for a key other than
   k ends in a panic of its own. *)
C12_Original ==
    \A t, u \in Threads :
        /\ pc[t] = "idle" /\ ret[t].kind = "panicked"
        /\ pc[u] = "idle" /\ key[u] # key[t]
        => ret[u].kind # "poisoned"

(* the state conditions of C12 as amended *)
C12_Inv ==
    /\ backend = "sharded" =>
          /\ \A s \in ShardIdx : lock[s] # Poisoned
          /\ \A t \in Threads : ret[t].kind # "poisoned"
          /\ \A t \in Threads : pc[t] = "idle" => \A s \in ShardIdx : lock[s] # t
          /\ \A u \in Threads :
                pc[u] = "cache_arc" /\ lock[ShardOf(key[u])] = 0
                   => ENABLED (cache_arc_occupied(u) \/ cache_arc_vacant(u))
          /\ \A u \in Threads : Holds(u) => ret[u].val = first[key[u]]
    /\ backend = "single" =>
          /\ (\E t \in Threads : ret[t].kind \in {"panicked", "poisoned"})
                => lock[0] = Poisoned
          /\ lock[0] = Poisoned =>
                \A u \in Threads :
                   pc[u] \in Waiting
                      => /\ ENABLED lock_poisoned(u)
                         /\ ~ENABLED (cache_occupied(u) \/ cache_vacant(u))
                         /\ ~ENABLED contains_key(u)
                         /\ ~ENABLED into_iter(u)

(* the steps of C12 as amended *)
C12_Step ==
    /\ \A t \in Threads :
          pc[t] \in {"factory", "arc_factory"} /\ ret'[t].kind = "panicked"
             => /\ lock'[ShardOf(key[t])] = (IF backend = "single" THEN Poisoned ELSE 0)
                /\ \A k \in Keys : Get(inner', heap', k) = Get(inner, heap, k)
    /\ (\E s \in ShardIdx : lock[s] = Poisoned)
          => /\ lock' = lock /\ inner' = inner /\ heap' = heap
             /\ \A u \in Threads :
                   pc[u] \in Waiting /\ pc'[u] = "idle" => ret'[u].kind = "poisoned"

(* C12 (amended) -- a panic inside a factory does not corrupt the store.  In
   the sharded map the shard's lock is released, so later cache calls, for any
   key, still take it and return the committed value.  In the single-lock map
   (std Mutex) the panic poisons the lock: from then on the store never
   changes and every cache, cache_default, contains_key or iter call, for any
   key, ends in a panic of unwrap() instead of a result. *)
C12_PanicConfined == [](C12_Inv) /\ [][C12_Step]_vars

(* single lock: k = 0 is stored, the factory of another key panicked, and a
   later contains_key(0) panicked on the poisoned lock *)
C12_Witness ==
    \E t, u \in Threads :
        /\ backend = "single" /\ lock[0] = Poisoned
        /\ pc[t] = "idle" /\ ret[t].kind = "panicked" /\ key[t] = 1
        /\ pc[u] = "idle" /\ ret[u].kind = "poisoned" /\ key[u] = 0
        /\ Get(inner, heap, 0) = first[0] /\ first[0] # {}

----------------------------------------------------------------------------
(* the steps of a cache_default call, as C13 reads them: the call itself, and
   the step in which a cache call whose factory yields the default returns *)
C13_Step ==
    /\ \A t \in Threads, k \in Keys :
          cache_default(t, k)
             => /\ pc'[t] = "cache" /\ key'[t] = k /\ fval'[t] = DefaultV
                /\ inner' = inner /\ heap' = heap
                /\ ENABLED cache_call(t, k, DefaultV)
    /\ \A t \in Threads :
          pc[t] \in {"cache", "factory"} /\ pc'[t] = "idle" /\ fval[t] = DefaultV
             => IF Get(inner, heap, key[t]) = {}
                THEN /\ ret'[t].val = {DefaultV}
                     /\ Get(inner', heap', key[t]) = {DefaultV}
                     /\ \A k \in Keys \ {key[t]} :
                           Get(inner', heap', k) = Get(inner, heap, k)
                ELSE /\ ret'[t].val = Get(inner, heap, key[t])
                     /\ inner' = inner /\ heap' = heap

(* C13 -- cache_default(k) is cache(k, factory of the default value): the call
   enters the cache protocol with the factory fixed to the default and changes
   nothing else; and when such a call returns it has stored and returned the
   default if k was absent, and returned the stored value, leaving the store
   as it was, if k was present. *)
C13_CacheDefault == [][C13_Step]_vars

(* cache_default returned the stored 5 for one key after it had stored and
   returned the default for another *)
C13_Witness ==
    \E t \in Threads :
        /\ Holds(t) /\ fval[t] = DefaultV /\ ret[t].val = {5}
        /\ \E k \in Keys \ {key[t]} : first[k] = {DefaultV} /\ seen[k] # {}

----------------------------------------------------------------------------
(* C14 -- consuming iteration round trip: a map built by from_iter(S) and by
   cache calls, once moved into into_iter, no longer exists; the lock is never
   taken; what the iterator has yielded and what the table still holds are
   together the pairs of S, each once; and at the end the iterator has yielded
   exactly S, the table is empty and every Box is freed. *)
C14_IntoIterRoundTrip ==
    \A t \in Threads :
        pc[t] = "into_iter"
           => /\ ~alive /\ lock[0] = 0
              /\ it[t].snap = Committed
              /\ SeqToSet(it[t].yielded) \cup Contents(inner[0], heap) = Committed
              /\ Len(it[t].yielded) + Count(inner[0]) = Cardinality(Committed)
              /\ \A i, j \in 1..Len(it[t].yielded) :
                    it[t].yielded[i].key = it[t].yielded[j].key => i = j
              /\ it[t].done
                    => /\ SeqToSet(it[t].yielded) = Committed
                       /\ Count(inner[0]) = 0
                       /\ \A a \in DOMAIN heap : heap[a].strong = 0 /\ heap[a].drops = 0

(* a drained map of NumKeys pairs, one given to from_iter, the others cached *)
C14_Witness ==
    \E t \in Threads :
        /\ pc[t] = "into_iter" /\ it[t].done /\ Len(it[t].yielded) = NumKeys
        /\ \E k \in Keys : evals[k] = 0
        /\ \E k \in Keys : evals[k] = 1

----------------------------------------------------------------------------
(* the step a waiting call takes once it has its lock *)
Proceed(u) ==
    \/ cache_occupied(u) \/ cache_vacant(u)
    \/ contains_key(u)
    \/ into_iter(u)
    \/ cache_arc_occupied(u) \/ cache_arc_vacant(u)

(* the step by which the holder of a lock lets it go *)
LetGo(h) == cache_insert(h) \/ iter_drop(h) \/ cache_arc_insert(h)

(* C15 -- no deadlock without a reentrant factory: when no factory calls back
   into the map (factories may panic), a lock is only ever held by a thread
   that is running a factory or owns an iterator, which is not itself waiting
   and whose next step releases the lock; and a call that waits for a lock
   nobody holds can take its step (on a poisoned lock: its panic). *)
C15_NoDeadlock ==
    /\ \A s \in ShardIdx :
          lock[s] \in Threads
             => /\ pc[lock[s]] \in {"factory", "iter", "arc_factory"}
                /\ ENABLED LetGo(lock[s])
    /\ \A u \in Threads :
          pc[u] \in Waiting
             => /\ lock[ShardOf(key[u])] # u
                /\ lock[ShardOf(key[u])] = 0 => ENABLED Proceed(u)
                /\ lock[ShardOf(key[u])] = Poisoned => ENABLED lock_poisoned(u)

(* a call waits for the lock while the other thread, which holds it, iterates *)
C15_Witness ==
    \E t, u \in Threads :
        /\ pc[u] \in {"cache", "contains_key", "iter_lock"}
        /\ lock[0] = t /\ pc[t] = "iter" /\ it[t].done

----------------------------------------------------------------------------
(* C16 -- totality as liveness: under SpecLive's fairness (every factory
   returns, every iterator is dropped, and a call that finds its lock free
   again and again gets it), every cache, cache_default and contains_key call,
   of either map, eventually returns. *)
C16_Totality ==
    \A t \in Threads :
        (pc[t] \in {"cache", "factory", "contains_key", "cache_arc", "arc_factory"})
           ~> (pc[t] = "idle")

(* a contains_key call waits while the other thread's factory runs under the
   lock, with an entry already in the map *)
C16_Witness ==
    \E t, u \in Threads :
        /\ pc[u] = "contains_key" /\ pc[t] = "factory" /\ lock[0] = t
        /\ \E k \in Keys : first[k] # {}

----------------------------------------------------------------------------
(* C17 -- the factory runs under the lock (single-lock map): while the factory
   of cache(k, f) runs, its thread holds the lock and k is still absent; no
   other thread runs a factory or owns an iterator, and no step by which
   another thread's cache, contains_key or iter call would take the lock,
   complete, or change the store is possible. *)
C17_FactoryUnderLock ==
    \A t \in Threads :
        pc[t] = "factory"
           => /\ lock[0] = t
              /\ Vacant(inner[0], key[t])
              /\ \A u \in Threads \ {t} :
                    /\ pc[u] \notin {"factory", "iter"}
                    /\ ~ENABLED (cache_occupied(u) \/ cache_vacant(u) \/ cache_insert(u))
                    /\ ~ENABLED contains_key(u)
                    /\ ~ENABLED (into_iter(u) \/ next(u) \/ iter_drop(u))

(* a factory runs for the second key while the other thread's iter call waits *)
C17_Witness ==
    \E t, u \in Threads :
        pc[t] = "factory" /\ pc[u] = "iter_lock" /\ Count(inner[0]) = 1

(* C19 -- shard independence (sharded map): a lock is held only by a thread
   running the factory of a key of that shard, and that thread holds no other
   shard's lock; a waiting cache call can take its step exactly when no factory
   runs for a key of its own shard, whatever runs in the other shards. *)
C19_ShardIndependence ==
    backend = "sharded" =>
       /\ \A s \in ShardIdx :
             lock[s] \in Threads
                => pc[lock[s]] = "arc_factory" /\ ShardOf(key[lock[s]]) = s
       /\ \A t \in Threads :
             pc[t] = "arc_factory"
                => \A s \in ShardIdx : (lock[s] = t) <=> (s = ShardOf(key[t]))
       /\ \A u \in Threads :
             pc[u] = "cache_arc"
                => ((ENABLED (cache_arc_occupied(u) \/ cache_arc_vacant(u)))
                      <=> (\A t \in Threads :
                              pc[t] = "arc_factory"
                                 => ShardOf(key[t]) # ShardOf(key[u])))

(* two factories run at once, for keys of different shards *)
C19_Witness ==
    \E t, u \in Threads :
        /\ pc[t] = "arc_factory" /\ pc[u] = "arc_factory"
        /\ ShardOf(key[t]) # ShardOf(key[u])

(* the state conditions of C20 *)
C20_Inv ==
    backend = "sharded" =>
       /\ \A a \in DOMAIN heap :
             alive /\ (\E k \in Keys : a \in SlotsFor(inner, k))
                => heap[a].strong = 1 + Owners(a)
       /\ \A t \in Threads :
             Holds(t)
                => /\ heap[ret[t].ptr.at].strong >= 1
                   /\ Deref(ret[t].ptr) # {}
                   /\ Deref(as_ref(ret[t].ptr)) = Deref(ret[t].ptr)

(* one step, as C20 reads it: the count of a cell moves only with the Arcs to
   it and with the map's share *)
C20_Step ==
    backend = "sharded" =>
       /\ \A a \in DOMAIN heap :
             heap'[a].strong =
                heap[a].strong + (Owners(a)' - Owners(a))
                   - (IF alive /\ ~alive' /\ (\E k \in Keys : a \in SlotsFor(inner, k))
                      THEN 1 ELSE 0)
       /\ \A t \in Threads :
             pc[t] \in {"cache_arc", "arc_factory"} /\ pc'[t] = "idle"
                => /\ ret'[t].ptr.kind = "arcref"
                   /\ \A a \in DOMAIN heap : heap'[a] = heap[a]
                   /\ \A a \in DOMAIN heap' \ DOMAIN heap : heap'[a].strong = 1

(* C20 -- reference-count accounting: a step changes a cell's strong count
   only by the Arcs made of it (to_arc: +1), dropped (-1) and by the map's own
   share going with the map (-1); the step that hands out an ArcRef changes no
   count; so with the map alive a stored cell's count is 1 plus its Arcs, and
   the cell behind an ArcRef that can still be used, or behind its as_ref, is
   never at 0. *)
C20_RefCount == [](C20_Inv) /\ [][C20_Step]_vars

(* both threads own an Arc of the one stored cell: its count is 3 *)
C20_Witness ==
    /\ alive /\ backend = "sharded"
    /\ \E a \in DOMAIN heap : heap[a].strong = 3 /\ Owners(a) = 2

----------------------------------------------------------------------------
(* the factory of t has called the map and the call needs the lock that t
   itself holds *)
Reentered(t) == nest[t].op # "none" /\ lock[ShardOf(nest[t].key)] = t

(* the state conditions of C18 *)
C18_Inv ==
    \A t \in Threads :
        nest[t].op # "none"
           => /\ pc[t] \in {"factory", "arc_factory"}
              /\ lock[ShardOf(key[t])] = t
              /\ backend = "single" => Reentered(t)
              /\ backend = "sharded"
                    => (Reentered(t) <=> ShardOf(nest[t].key) = ShardOf(key[t]))
              /\ Reentered(t)
                    => /\ \A v \in Vals : ~ENABLED nested_call(t, v)
                       /\ ~ENABLED (nest[t] = NoNest /\ cache_insert(t))
                       /\ ~ENABLED (nest[t] = NoNest /\ cache_arc_insert(t))

(* one step, as C18 reads it *)
C18_Step ==
    \A t \in Threads :
        Reentered(t)
           => /\ Reentered(t)'
              /\ pc'[t] = pc[t] /\ nest'[t] = nest[t] /\ ret'[t] = ret[t]
              /\ \A k \in Keys : Get(inner', heap', k) = Get(inner, heap, k) \/ k # key[t]

(* C18 -- a reentrant factory deadlocks: when the factory of cache(k, f) calls
   cache, contains_key or iter on the same map, the call needs the lock the
   thread already holds (always in the single-lock map; in the sharded map
   exactly when the call's key is in k's shard); it can then never take it, the
   factory can never return, and no step ever changes that: the outer call
   never returns and k is never inserted. *)
C18_ReentrantDeadlock == [](C18_Inv) /\ [][C18_Step]_vars

(* single lock: the factory called contains_key and is stuck with the lock,
   and the other thread's cache call waits for it *)
C18_Witness ==
    \E t, u \in Threads :
        /\ backend = "single" /\ Reentered(t) /\ nest[t].op = "contains_key"
        /\ pc[u] = "cache" /\ lock[0] = t

====
